---- MODULE Spec2Model ----
(***************************************************************************)
(* Model of RandomWalkBSSRDF::sample and RandomWalkBSSRDF::test_rr         *)
(* (src/appleseed/renderer/modeling/bssrdf/randomwalkbssrdf.cpp).          *)
(*                                                                         *)
(* One behaviour of the model is one call of sample(): the variables are   *)
(* the locals of the call and the parts of bssrdf_sample it writes, pc is  *)
(* the position in the function body.  The sampling context, the           *)
(* intersector and the local BRDF are external: every draw of the sampling *)
(* context and every answer of the intersector is a nondeterministic       *)
(* choice from a small set.                                                *)
(*                                                                         *)
(* Floats are modelled as binary floating-point numbers of a short         *)
(* mantissa and a small exponent range, rounded towards zero, that         *)
(* underflow to 0 and overflow to Inf, with a NaN for 0/0, Inf*0, Inf-Inf  *)
(* and Inf/Inf, as IEEE arithmetic does.  The code's assert()s are         *)
(* modelled as enabled: a failing one ends the call in pc = "aborted".     *)
(***************************************************************************)
EXTENDS Integers, Sequences, FiniteSets

\* ------------------------------------------------------------------------
\* Floats
\* ------------------------------------------------------------------------
\* A float is m * 2^(e - MantissaBits) with a mantissa m of MantissaBits + 1
\* bits (2^MantissaBits <= m < 2^(MantissaBits+1)) and an exponent e in
\* -ExponentMax..ExponentMax, or 0, or an infinity, or NaN.  It is held as
\* the integer an IEEE bit pattern would be: (biased exponent, fraction)
\* for a positive number, its negation for a negative one, so that the order
\* of the codes is the order of the numbers.  Results are rounded towards
\* zero; a result below 2^-ExponentMax underflows to 0, one of 2^(ExponentMax+1)
\* or more overflows to Inf.

MantissaBits == 10
ExponentMax == 40

Pow2(k) == 2 ^ k

FB == Pow2(MantissaBits)
Inf == (2 * ExponentMax + 2) * FB
NaN == Inf + 1

IsNaN(x) == x = NaN
IsInf(x) == x = Inf \/ x = 0 - Inf
IsFinite(x) == ~IsNaN(x) /\ ~IsInf(x)

Abs(x) == IF x < 0 THEN 0 - x ELSE x
Sgn(x) == IF x < 0 THEN 0 - 1 ELSE 1
Neg(x) == IF IsNaN(x) THEN NaN ELSE 0 - x

\* The exponent and the mantissa of a positive finite float.
ExpOf(c) == c \div FB - ExponentMax - 1
ManOf(c) == FB + (c % FB)

\* The float nearest below M * 2^e, for an integer M >= 0.
Norm(M, e) ==
    IF M = 0 THEN 0
    ELSE LET k == CHOOSE j \in 0..30 : Pow2(j) <= M /\ M \div 2 < Pow2(j)
             m == IF k >= MantissaBits THEN M \div Pow2(k - MantissaBits)
                  ELSE M * Pow2(MantissaBits - k)
             x == e + k
         IN  IF x < 0 - ExponentMax THEN 0
             ELSE IF x > ExponentMax THEN Inf
             ELSE (x + ExponentMax + 1) * FB + (m - FB)

\* The float of an integer, and of the ratio of two.
FromInt(n) == Sgn(n) * Norm(Abs(n), 0)

\* a * b
Mul(a, b) ==
    IF IsNaN(a) \/ IsNaN(b) THEN NaN
    ELSE IF IsInf(a) \/ IsInf(b)
         THEN (IF a = 0 \/ b = 0 THEN NaN ELSE Sgn(a) * Sgn(b) * Inf)
    ELSE IF a = 0 \/ b = 0 THEN 0
    ELSE Sgn(a) * Sgn(b) *
         Norm(ManOf(Abs(a)) * ManOf(Abs(b)),
              ExpOf(Abs(a)) + ExpOf(Abs(b)) - 2 * MantissaBits)

\* a / b
Div(a, b) ==
    IF IsNaN(a) \/ IsNaN(b) THEN NaN
    ELSE IF IsInf(b) THEN (IF IsInf(a) THEN NaN ELSE 0)
    ELSE IF IsInf(a) THEN Sgn(a) * Sgn(b) * Inf
    ELSE IF b = 0 THEN (IF a = 0 THEN NaN ELSE Sgn(a) * Inf)
    ELSE IF a = 0 THEN 0
    ELSE Sgn(a) * Sgn(b) *
         Norm((ManOf(Abs(a)) * Pow2(MantissaBits + 1)) \div ManOf(Abs(b)),
              ExpOf(Abs(a)) - ExpOf(Abs(b)) - MantissaBits - 1)

\* a + b for positive finite a >= b, and a - b for positive finite a > b
AddMag(a, b) ==
    LET d == ExpOf(a) - ExpOf(b)
    IN  IF d > MantissaBits + 1 THEN a
        ELSE Norm(ManOf(a) * Pow2(d) + ManOf(b), ExpOf(b) - MantissaBits)

SubMag(a, b) ==
    LET d == ExpOf(a) - ExpOf(b)
    IN  IF d > MantissaBits + 1 THEN a
        ELSE Norm(ManOf(a) * Pow2(d) - ManOf(b), ExpOf(b) - MantissaBits)

\* a + b
Add(a, b) ==
    IF IsNaN(a) \/ IsNaN(b) THEN NaN
    ELSE IF IsInf(a) THEN (IF IsInf(b) /\ a # b THEN NaN ELSE a)
    ELSE IF IsInf(b) THEN b
    ELSE IF a = 0 THEN b
    ELSE IF b = 0 THEN a
    ELSE IF Sgn(a) = Sgn(b)
         THEN Sgn(a) * (IF Abs(a) >= Abs(b) THEN AddMag(Abs(a), Abs(b))
                        ELSE AddMag(Abs(b), Abs(a)))
    ELSE IF Abs(a) = Abs(b) THEN 0
    ELSE IF Abs(a) > Abs(b) THEN Sgn(a) * SubMag(Abs(a), Abs(b))
    ELSE Sgn(b) * SubMag(Abs(b), Abs(a))

\* a - b
Sub(a, b) == Add(a, Neg(b))

\* a < b, a <= b, a == b on floats: false when either is NaN.
Lt(a, b) == ~IsNaN(a) /\ ~IsNaN(b) /\ a < b
Le(a, b) == ~IsNaN(a) /\ ~IsNaN(b) /\ a <= b
Eq(a, b) == ~IsNaN(a) /\ ~IsNaN(b) /\ a = b

\* Float literals: n / d, and n thousandths.
Ratio(n, d) == Div(FromInt(n), FromInt(d))
Dec(n) == Ratio(n, 1000)
One == FromInt(1)

\* rcp(x) = 1 / x
rcp(x) == Div(One, x)

\* std::min(a, b) = (b < a) ? b : a and std::max(a, b) = (a < b) ? b : a
min(a, b) == IF Lt(b, a) THEN b ELSE a
max(a, b) == IF Lt(a, b) THEN b ELSE a

\* mix(a, b, t) = (1 - t) * a + t * b, for t in [0, 1]
mix(a, b, t) == Add(Mul(Sub(One, t), a), Mul(t, b))

\* clamp(x, lo, hi): x < lo ? lo : x > hi ? hi : x
clamp(x, lo, hi) == IF Lt(x, lo) THEN lo ELSE IF Lt(hi, x) THEN hi ELSE x

\* exp and log work on y * 2^FixBits as an integer; Ln2 is ln 2 so scaled.
FixBits == 12
Fix == Pow2(FixBits)
Ln2 == 2839

\* std::exp(-y) for y >= 0: y = k ln 2 + r with 0 <= r < ln 2, then exp(-r)
\* by its Taylor polynomial, and k halvings.
ExpNeg(y) ==
    IF IsNaN(y) THEN NaN
    ELSE IF IsInf(y) THEN 0
    ELSE IF y = 0 THEN One
    ELSE IF ExpOf(y) >= 10 THEN 0
    ELSE LET s  == ExpOf(y) - MantissaBits + FixBits
             f  == IF s >= 0 THEN ManOf(y) * Pow2(s)
                   ELSE IF s < 0 - MantissaBits - 1 THEN 0
                   ELSE ManOf(y) \div Pow2(0 - s)
             k  == f \div Ln2
             r  == f % Ln2
             r2 == (r * r) \div Fix
             r3 == (r2 * r) \div Fix
             r4 == (r3 * r) \div Fix
         IN  Norm(Fix - r + r2 \div 2 - r3 \div 6 + r4 \div 24, 0 - FixBits - k)

\* std::log(x) for x >= 1: x = m * 2^e with 1 <= m < 2, then
\* ln m = 2 atanh((m - 1) / (m + 1)) by its series.
LogMag(x) ==
    LET m  == ManOf(x)
        z  == ((m - FB) * Fix) \div (m + FB)
        z2 == (z * z) \div Fix
        z3 == (z * z2) \div Fix
        z5 == (z3 * z2) \div Fix
    IN  Norm(ExpOf(x) * Ln2 + 2 * (z + z3 \div 3 + z5 \div 5), 0 - FixBits)

\* std::log(x) for x >= 0
Log(x) ==
    IF IsNaN(x) \/ x < 0 THEN NaN
    ELSE IF IsInf(x) THEN Inf
    ELSE IF x = 0 THEN 0 - Inf
    ELSE IF x >= One THEN LogMag(x)
    ELSE Neg(LogMag(rcp(x)))

FourPi == Dec(12566)

\* ------------------------------------------------------------------------
\* Spectra: one float per channel
\* ------------------------------------------------------------------------

\* Spectrum::size()
NumChannels == 2

Channels == 1..NumChannels

RECURSIVE SumUpTo(_, _)
SumUpTo(s, n) == IF n = 0 THEN 0 ELSE Add(SumUpTo(s, n - 1), s[n])

RECURSIVE MaxUpTo(_, _)
MaxUpTo(s, n) == IF n = 1 THEN s[1] ELSE max(MaxUpTo(s, n - 1), s[n])

\* max_value(s): the largest channel of s
max_value(s) == MaxUpTo(s, NumChannels)

SpectrumSet(x) == [i \in Channels |-> x]
SpectrumMul(s, t) == [i \in Channels |-> Mul(s[i], t[i])]
SpectrumScale(s, x) == [i \in Channels |-> Mul(s[i], x)]
SpectrumDiv(s, x) == [i \in Channels |-> Div(s[i], x)]

\* clamp_in_place(s, lo, hi)
clamp_in_place(s, lo, hi) == [i \in Channels |-> clamp(s[i], lo, hi)]

\* build_cdf_and_pdf(weights, cdf, pdf): the distribution over the channels
\* proportional to weights.
channel_pdf_of(weights) ==
    [i \in Channels |-> Div(weights[i], SumUpTo(weights, NumChannels))]

channel_cdf_of(weights) ==
    [i \in Channels |-> Div(SumUpTo(weights, i), SumUpTo(weights, NumChannels))]

\* sample_cdf(begin, end, u): the first channel whose cdf entry exceeds u.
\* When no entry does (a cdf of NaNs) the search runs off the end of the
\* array: any channel.
sample_cdf(cdf, u) ==
    IF \E i \in Channels : Lt(u, cdf[i])
    THEN {CHOOSE i \in Channels : Lt(u, cdf[i]) /\ \A j \in 1..(i - 1) : ~Lt(u, cdf[j])}
    ELSE Channels

\* ------------------------------------------------------------------------
\* Sampling
\* ------------------------------------------------------------------------

\* sample_exponential_distribution(s, a) = -ln(1 - s) / a
sample_exponential_distribution(s, a) ==
    Div(Neg(Log(Sub(One, s))), a)

\* pass_rr(probability, s): continue with the given probability
pass_rr(probability, s) == Lt(s, probability)

\* dot(a, b), for a direction and a normal along one axis: a direction is
\* its signed component along the axis, a normal is 1 or -1.
dot(a, b) == Mul(a, b)

\* 1 - cosine * kappa
OneMinusCosKappa(cos, kappa) == Sub(One, Mul(cos, kappa))

\* DwivediPhaseFunction(nu0).evaluate(normal, incoming): the density
\* 1 / (2 pi ln((nu0 + 1) / (nu0 - 1)) (nu0 - mu)) of the direction, with
\* mu = dot(normal, incoming); it integrates to 1 over the sphere.
DwivediEvaluate(nu0, normal, dir) ==
    LET mu == dot(normal, dir)
        L  == Log(Div(Add(nu0, One), Sub(nu0, One)))
    IN  Div(Div(FromInt(2), Mul(L, Sub(nu0, mu))), FourPi)

\* DwivediPhaseFunction(nu0).sample(normal, s, incoming): the direction whose
\* cosine mu to the normal inverts the cumulative density at s,
\* nu0 - mu = (nu0 + 1) exp(-s ln((nu0 + 1) / (nu0 - 1))).
DwivediSample(nu0, normal, s) ==
    LET L  == Log(Div(Add(nu0, One), Sub(nu0, One)))
        mu == Sub(nu0, Mul(Add(nu0, One), ExpNeg(Mul(s, L))))
    IN  dot(clamp(mu, Neg(One), One), normal)

\* sample_sphere_uniform(s): the component along the axis is 1 - 2 s.
sample_sphere_uniform(s) == Sub(One, Mul(FromInt(2), s))

\* ------------------------------------------------------------------------
\* Inputs
\* ------------------------------------------------------------------------

\* The precomputed optical properties of one channel, as prepare_inputs
\* leaves them: a bright channel, a dense absorbing one, a channel whose
\* mean free path overflowed (extinction 0) and a dark thin one whose
\* albedo * extinction underflows.
ChannelProperties ==
    { [albedo |-> Dec(900), extinction |-> One,
       rcp_diffusion_length |-> Dec(525)],
      [albedo |-> Dec(500), extinction |-> FromInt(4),
       rcp_diffusion_length |-> Dec(957)],
      [albedo |-> Dec(900), extinction |-> 0,
       rcp_diffusion_length |-> Dec(525)],
      [albedo |-> Dec(5), extinction |-> Norm(1, 2 - ExponentMax),
       rcp_diffusion_length |-> Dec(990)] }

\* The media: the first channel has one set of properties, the others share
\* another.
Media ==
    { m \in [Channels -> ChannelProperties] :
        \A i, j \in Channels : (i > 1 /\ j > 1) => m[i] = m[j] }

\* The values the sampling context draws, in [0, 1).
Uniforms == {0, Dec(500), Dec(900)}

\* The sampling context is a deterministic sequence: one of the periodic
\* sequences of Uniforms of this period.
StreamPeriod == 4

Streams == [1..StreamPeriod -> Uniforms]

\* The distances at which the initial ray can hit the surface.
RayLengths == {Dec(200), FromInt(3)}

\* values->m_zero_scattering_weight, m_single_scattering_weight,
\* m_multiple_scattering_weight
zero_scattering_weight == Dec(500)
single_scattering_weight == Dec(250)
multiple_scattering_weight == Dec(750)

classical_sampling_prob == Dec(100)
MaxIterationsCount == 64
MinRRIteration == 8

\* ------------------------------------------------------------------------
\* State
\* ------------------------------------------------------------------------

VARIABLES
    pc,                     \* position in sample()
    medium,                 \* values->m_precomputed
    stream,                 \* the sequence the sampling context draws from
    sampling_context,       \* the draws made so far, modulo the period
    m_value,                \* bssrdf_sample.m_value
    n_iteration,
    transmitted,
    channel,
    channel_pdf,
    is_biased,
    incoming,
    cosine,
    distance,
    ray_length,
    bias_strategy_prob,
    slab_normal,
    far_slab_normal,
    incoming_point,         \* bssrdf_sample.m_incoming_point: "clear", "miss" or "hit"
    returned,               \* what sample() returned: "true", "false", or "none" so far
    exit,                   \* the statement sample() left by
    rr_tests,               \* calls of test_rr
    traces,                 \* calls of Intersector::trace
    direction_samples,      \* directions sampled in the loop
    albedo_updates,         \* executions of m_value *= albedo
    distance_samples,       \* free-flight distances sampled in the loop
    clamps,                 \* executions of clamp_in_place
    weights_applied,        \* the scattering-order weights multiplied in, in order
    flips,                  \* calls of m_incoming_point.flip_side()
    brdf_samples            \* calls of m_brdf->sample

vars == <<pc, medium, stream, sampling_context, m_value, n_iteration, transmitted, channel, channel_pdf,
          is_biased, incoming, cosine, distance, ray_length, bias_strategy_prob,
          slab_normal, far_slab_normal, incoming_point, returned, exit, rr_tests,
          traces, direction_samples, albedo_updates, distance_samples, clamps,
          weights_applied, flips, brdf_samples>>

inputs == <<medium, stream>>
walk == <<ray_length, bias_strategy_prob, slab_normal, far_slab_normal>>
locals == <<channel, channel_pdf, is_biased, incoming, cosine, distance>>
tail == <<clamps, weights_applied, flips, brdf_samples>>
counts == <<rr_tests, traces, direction_samples, albedo_updates, distance_samples>>

extinction == [i \in Channels |-> medium[i].extinction]
albedo == [i \in Channels |-> medium[i].albedo]
rcp_diffusion_length == [i \in Channels |-> medium[i].rcp_diffusion_length]
\* precomputed.m_scattering[i] = albedo * extinction
scattering == [i \in Channels |-> Mul(medium[i].albedo, medium[i].extinction)]

near_slab_normal == One

\* sampling_context.next2(): the k-th draw from here, k = 0, 1, ...
next2(k) == stream[((sampling_context + k) % StreamPeriod) + 1]

\* The sampling context after n draws.
Drawn(n) == sampling_context' = (sampling_context + n) % StreamPeriod

\* The locals of one loop iteration, out of scope.
NoChannel == 0
NoSpectrum == SpectrumSet(0)

\* ------------------------------------------------------------------------
\* compute_transmission_classical_sampling, compute_mis_dwivedi_sampling
\* ------------------------------------------------------------------------

\* The transmission the function writes: exp(-distance * extinction[i]),
\* times extinction[i] when the segment did not reach the surface.
classical_transmission(d, tr) ==
    [i \in Channels |->
        LET e == ExpNeg(Mul(d, extinction[i]))
        IN  IF tr THEN e ELSE Mul(e, extinction[i])]

RECURSIVE MisUpTo(_, _, _)
MisUpTo(t, pdf, n) ==
    IF n = 0 THEN 0 ELSE Add(MisUpTo(t, pdf, n - 1), Mul(t[n], pdf[n]))

\* The mis_base the function returns.
compute_transmission_classical_sampling(d, pdf, tr) ==
    MisUpTo(classical_transmission(d, tr), pdf, NumChannels)

\* assert(FP<float>::is_finite(x)) in compute_transmission_classical_sampling
classical_exponents_finite(d) ==
    \A i \in Channels : IsFinite(Mul(d, extinction[i]))

dwivedi_effective_extinction(i, cos) ==
    Mul(extinction[i], OneMinusCosKappa(cos, rcp_diffusion_length[i]))

dwivedi_term(i, d, cos, pdf, tr, normal, dir) ==
    LET effective_extinction == dwivedi_effective_extinction(i, cos)
        distance_prob ==
            Mul(IF tr THEN One ELSE effective_extinction,
                ExpNeg(Mul(d, effective_extinction)))
        direction_prob ==
            DwivediEvaluate(rcp(rcp_diffusion_length[i]), normal, dir)
    IN  Mul(Mul(distance_prob, pdf[i]), direction_prob)

RECURSIVE DwivediUpTo(_, _, _, _, _, _, _)
DwivediUpTo(n, d, cos, pdf, tr, normal, dir) ==
    IF n = 0 THEN 0
    ELSE Add(DwivediUpTo(n - 1, d, cos, pdf, tr, normal, dir),
             dwivedi_term(n, d, cos, pdf, tr, normal, dir))

compute_mis_dwivedi_sampling(d, cos, pdf, tr, normal, dir) ==
    Mul(DwivediUpTo(NumChannels, d, cos, pdf, tr, normal, dir), FourPi)

\* assert(FP<float>::is_finite(x)) in compute_mis_dwivedi_sampling
dwivedi_exponents_finite(d, cos) ==
    \A i \in Channels : IsFinite(Mul(d, dwivedi_effective_extinction(i, cos)))

\* ------------------------------------------------------------------------
\* sample()
\* ------------------------------------------------------------------------

Init ==
    /\ pc = "start"
    /\ medium \in Media
    /\ stream \in Streams
    /\ sampling_context = 0
    /\ m_value = SpectrumSet(One)
    /\ n_iteration = 0
    /\ transmitted = FALSE
    /\ channel = NoChannel
    /\ channel_pdf = NoSpectrum
    /\ is_biased = FALSE
    /\ incoming = 0
    /\ cosine = 0
    /\ distance = 0
    /\ ray_length = 0
    /\ bias_strategy_prob = 0
    /\ slab_normal = 0
    /\ far_slab_normal = 0
    /\ incoming_point = "clear"
    /\ returned = "none"
    /\ exit = "none"
    /\ rr_tests = 0
    /\ traces = 0
    /\ direction_samples = 0
    /\ albedo_updates = 0
    /\ distance_samples = 0
    /\ clamps = 0
    /\ weights_applied = <<>>
    /\ flips = 0
    /\ brdf_samples = 0

\* return false / return true
Return(value, why) ==
    /\ pc' = "done"
    /\ returned' = value
    /\ exit' = why

\* A failing assert().
Abort(why) ==
    /\ pc' = "aborted"
    /\ exit' = why
    /\ UNCHANGED returned

\* Line 290: bool transmitted = ray_length <= distance.
reached_surface(length, d) == Le(length, d)

\* Variant of the test at line 288 in which a missing hit is not detected.
initial_ray_escaped_ignored(is_valid) == FALSE

\* Line 288: the initial ray found no valid hit.
initial_ray_escaped(is_valid) == ~is_valid

\* Lines 252-312: the initial segment.  The channel and the distance are
\* sampled, the initial ray is traced; an invalid hit returns false,
\* otherwise the classical MIS weight is applied and the slab normals are
\* fixed.
TraceInitialRay ==
    /\ pc = "start"
    /\ Drawn(3)
    /\ \E is_valid \in BOOLEAN, length \in RayLengths,
          hit_normal \in {One, Neg(One)} :
        LET s_channel == next2(1)
            s_distance == next2(2)
            value0 == SpectrumSet(One)
            pdf == channel_pdf_of(value0)
        IN  \E c \in sample_cdf(channel_cdf_of(value0), s_channel) :
            LET d == sample_exponential_distribution(s_distance, extinction[c])
                tr == reached_surface(length, d)
                used == IF tr THEN length ELSE d
                mis_weight == compute_transmission_classical_sampling(used, pdf, tr)
                closer == Lt(d, Mul(Dec(500), length))
            IN  /\ traces' = traces + 1
                /\ incoming_point' = IF is_valid THEN "hit" ELSE "miss"
                /\ IF initial_ray_escaped(is_valid)
                   THEN /\ Return("false", "no_hit")
                        /\ UNCHANGED <<m_value, transmitted, walk>>
                   ELSE IF ~classical_exponents_finite(used)
                   THEN /\ Abort("assert_exponent")
                        /\ UNCHANGED <<m_value, transmitted, walk>>
                   ELSE /\ m_value' = SpectrumScale(classical_transmission(used, tr),
                                                    rcp(mis_weight))
                        /\ transmitted' = tr
                        /\ ray_length' = length
                        /\ bias_strategy_prob' =
                               ExpNeg(Mul(Mul(extinction[c], length), Dec(500)))
                        /\ far_slab_normal' = Neg(hit_normal)
                        /\ slab_normal' =
                               IF closer THEN Neg(hit_normal) ELSE near_slab_normal
                        /\ pc' = "while"
                        /\ UNCHANGED <<returned, exit>>
    /\ UNCHANGED <<inputs, n_iteration, locals, rr_tests, direction_samples,
                   albedo_updates, distance_samples, tail>>

\* Line 314: while (!transmitted).
inside_object(tr) == ~tr

\* Line 314, condition false: the walk left the object.
LeaveLoop ==
    /\ pc = "while"
    /\ ~inside_object(transmitted)
    /\ pc' = "clamp"
    /\ UNCHANGED <<inputs, sampling_context, m_value, n_iteration, transmitted, walk,
                   locals, incoming_point, returned, exit, counts, tail>>

\* Variant of the test at line 316 that tolerates one more iteration.
walk_is_lost_late(n) == n > MaxIterationsCount + 1

\* Line 316: the path got lost inside the object.
walk_is_lost(n) == n > MaxIterationsCount

\* Lines 314-317: the loop is entered, the iteration is counted and the cap
\* is tested.
EnterIteration ==
    /\ pc = "while"
    /\ inside_object(transmitted)
    /\ n_iteration' = n_iteration + 1
    /\ IF walk_is_lost(n_iteration + 1)
       THEN Return("false", "max_iterations")
       ELSE pc' = "rr" /\ UNCHANGED <<returned, exit>>
    /\ UNCHANGED <<inputs, sampling_context, m_value, transmitted, walk, locals,
                   incoming_point, counts, tail>>

\* Variant of the test at line 319 that starts the roulette one iteration early.
rr_due_early(n) == n >= MinRRIteration

\* Line 319, first operand: Russian Roulette is due.
rr_due(n) == n > MinRRIteration

\* Variant of lines 211-213 with std::max in place of std::min.
scattering_prob_floor(value) == max(max_value(value), Dec(990))

\* Variant of lines 211-213 without the cap at 0.99.
scattering_prob_uncapped(value) == max_value(value)

\* test_rr, lines 211-213: the probability of extending the path.
scattering_prob(value) == min(max_value(value), Dec(990))

\* test_rr, line 221: m_value /= scattering_prob.
rr_adjusted(value) == SpectrumDiv(value, scattering_prob(value))

\* Lines 319-320 and test_rr (lines 203-224).
RussianRoulette ==
    /\ pc = "rr"
    /\ IF rr_due(n_iteration)
       THEN LET s == next2(0)
            IN
              /\ Drawn(1)
              /\ rr_tests' = rr_tests + 1
              /\ IF ~pass_rr(scattering_prob(m_value), s)
                 THEN /\ Return("false", "rr")
                      /\ UNCHANGED m_value
                 ELSE IF ~Lt(0, scattering_prob(m_value))
                 THEN /\ Abort("assert_scattering_prob")
                      /\ UNCHANGED m_value
                 ELSE /\ m_value' = rr_adjusted(m_value)
                      /\ pc' = "channel"
                      /\ UNCHANGED <<returned, exit>>
       ELSE /\ pc' = "channel"
            /\ UNCHANGED <<sampling_context, m_value, rr_tests, returned, exit>>
    /\ UNCHANGED <<inputs, n_iteration, transmitted, walk, locals, incoming_point,
                   traces, direction_samples, albedo_updates, distance_samples, tail>>

\* Variant of line 331 that only looks at the scattering coefficient.
channel_is_degenerate_by_scattering(c, value) == Eq(scattering[c], 0)

\* Line 331: the path is lost when the chosen channel cannot scatter or
\* carries nothing.
channel_is_degenerate(c, value) == Eq(scattering[c], 0) \/ Eq(value[c], 0)

\* Lines 324-332: the channel used for distance sampling.
ChooseChannel ==
    /\ pc = "channel"
    /\ Drawn(1)
    /\ \E c \in sample_cdf(channel_cdf_of(m_value), next2(0)) :
            /\ channel' = c
            /\ channel_pdf' = channel_pdf_of(m_value)
            /\ IF channel_is_degenerate(c, m_value)
               THEN Return("false", "degenerate_channel")
               ELSE pc' = "direction" /\ UNCHANGED <<returned, exit>>
    /\ UNCHANGED <<inputs, m_value, n_iteration, transmitted, walk, is_biased,
                   incoming, cosine, distance, incoming_point, counts, tail>>

\* Lines 334-349: biased or classical sampling, and the next direction.
SampleDirection ==
    /\ pc = "direction"
    /\ Drawn(2)
    /\ direction_samples' = direction_samples + 1
    /\ LET biased == Lt(classical_sampling_prob, next2(0))
           s_direction == next2(1)
       IN  /\ is_biased' = biased
           /\ incoming' =
                IF biased
                THEN DwivediSample(rcp(rcp_diffusion_length[channel]), slab_normal,
                                   s_direction)
                ELSE sample_sphere_uniform(s_direction)
    /\ pc' = "albedo"
    /\ UNCHANGED <<inputs, m_value, n_iteration, transmitted, walk, channel,
                   channel_pdf, cosine, distance, incoming_point, returned, exit,
                   rr_tests, traces, albedo_updates, distance_samples, tail>>

\* Variant of lines 351-352 in which the scattering event loses no energy.
UpdateByAlbedo_skipped ==
    /\ pc = "albedo"
    /\ pc' = "distance"
    /\ UNCHANGED <<inputs, sampling_context, m_value, n_iteration, transmitted, walk,
                   locals, incoming_point, returned, exit, counts, tail>>

\* Lines 351-352.
UpdateByAlbedo ==
    /\ pc = "albedo"
    /\ m_value' = SpectrumMul(m_value, albedo)
    /\ albedo_updates' = albedo_updates + 1
    /\ pc' = "distance"
    /\ UNCHANGED <<inputs, sampling_context, n_iteration, transmitted, walk, locals,
                   incoming_point, returned, exit, rr_tests, traces,
                   direction_samples, distance_samples, tail>>

\* Lines 367-369.
effective_extinction(biased, c, cos) ==
    IF biased THEN dwivedi_effective_extinction(c, cos) ELSE extinction[c]

\* Line 371: assert(distance > 0.0f && !isnan(distance) && !isinf(distance))
distance_is_sane(d) == Lt(0, d) /\ ~IsNaN(d) /\ ~IsInf(d)

\* Lines 363-371: the free-flight distance.
SampleDistance ==
    /\ pc = "distance"
    /\ Drawn(1)
    /\ distance_samples' = distance_samples + 1
    /\ LET s_distance == next2(0)
       IN
         LET cos == dot(incoming, slab_normal)
             d == sample_exponential_distribution(
                      s_distance, effective_extinction(is_biased, channel, cos))
         IN  /\ cosine' = cos
             /\ distance' = d
             /\ IF distance_is_sane(d)
                THEN pc' = "trace" /\ UNCHANGED exit
                ELSE Abort("assert_distance")
    /\ UNCHANGED <<inputs, m_value, n_iteration, transmitted, walk, channel,
                   channel_pdf, is_biased, incoming, incoming_point, returned,
                   rr_tests, traces, direction_samples, albedo_updates, tail>>

\* The distances at which a ray of length tmax can hit the surface.
HitDistances(tmax) == {tmax, Mul(tmax, Dec(500))}

\* Lines 413-420: the combined density of the segment.
combined_mis(d, cos, pdf, tr, dir) ==
    LET mis_classical == compute_transmission_classical_sampling(d, pdf, tr)
        mis_dwivedi_near ==
            compute_mis_dwivedi_sampling(d, cos, pdf, tr, near_slab_normal, dir)
        mis_dwivedi_far ==
            compute_mis_dwivedi_sampling(d, cos, pdf, tr, far_slab_normal, dir)
        mis_dwivedi == mix(mis_dwivedi_far, mis_dwivedi_near, bias_strategy_prob)
    IN  mix(mis_dwivedi, mis_classical, classical_sampling_prob)

\* Lines 373-421: the ray is traced up to the sampled distance and the
\* MIS-corrected transmission of the segment is multiplied in.
TraceRay ==
    /\ pc = "trace"
    /\ \E hit_surface \in BOOLEAN :
         \E d \in (IF hit_surface THEN HitDistances(distance) ELSE {distance}) :
            /\ traces' = traces + 1
            /\ incoming_point' = IF hit_surface THEN "hit" ELSE "miss"
            /\ IF classical_exponents_finite(d) /\ dwivedi_exponents_finite(d, cosine)
               THEN /\ transmitted' = hit_surface
                    /\ m_value' =
                         SpectrumMul(m_value,
                            SpectrumScale(classical_transmission(d, hit_surface),
                               rcp(combined_mis(d, cosine, channel_pdf, hit_surface,
                                                incoming))))
                    /\ pc' = "while"
                    /\ UNCHANGED exit
               ELSE /\ Abort("assert_exponent")
                    /\ UNCHANGED <<transmitted, m_value>>
    \* the iteration's locals go out of scope
    /\ channel' = NoChannel
    /\ channel_pdf' = NoSpectrum
    /\ is_biased' = FALSE
    /\ incoming' = 0
    /\ cosine' = 0
    /\ distance' = 0
    /\ UNCHANGED <<inputs, sampling_context, n_iteration, walk, returned, rr_tests,
                   direction_samples, albedo_updates, distance_samples, tail>>

\* Variant of line 424 with the upper bound of the clamp at 4.
clamped_value_loose(value) == clamp_in_place(value, 0, FromInt(4))

\* Line 424: clamp_in_place(bssrdf_sample.m_value, 0.0f, 2.0f).
clamped_value(value) == clamp_in_place(value, 0, FromInt(2))

\* Line 424.
ClampValue ==
    /\ pc = "clamp"
    /\ m_value' = clamped_value(m_value)
    /\ clamps' = clamps + 1
    /\ pc' = "weight"
    /\ UNCHANGED <<inputs, sampling_context, n_iteration, transmitted, walk, locals,
                   incoming_point, returned, exit, counts, weights_applied, flips,
                   brdf_samples>>

\* Variant of lines 426-431 with a three-way exclusive branch.
scattering_order_weights_exclusive(n) ==
    IF n = 1 THEN <<"zero">> ELSE IF n = 2 THEN <<"single">> ELSE <<"multiple">>

\* Lines 426-431: the weights multiplied in for a walk of n loop iterations,
\* in order.
scattering_order_weights(n) ==
    (IF n = 1 THEN <<"zero">> ELSE <<>>)
        \o (IF n = 2 THEN <<"single">> ELSE <<"multiple">>)

weight_value(w) ==
    CASE w = "zero" -> zero_scattering_weight
      [] w = "single" -> single_scattering_weight
      [] w = "multiple" -> multiple_scattering_weight

RECURSIVE weighted(_, _)
weighted(value, ws) ==
    IF ws = <<>> THEN value
    ELSE weighted(SpectrumScale(value, weight_value(Head(ws))), Tail(ws))

\* Lines 426-431.
ApplyWeights ==
    /\ pc = "weight"
    /\ weights_applied' = scattering_order_weights(n_iteration)
    /\ m_value' = weighted(m_value, scattering_order_weights(n_iteration))
    /\ pc' = "flip"
    /\ UNCHANGED <<inputs, sampling_context, n_iteration, transmitted, walk, locals,
                   incoming_point, returned, exit, counts, clamps, flips,
                   brdf_samples>>

\* Variant of lines 433-435 in which the hit record is left as traced.
FlipSide_skipped ==
    /\ pc = "flip"
    /\ pc' = "brdf"
    /\ UNCHANGED <<inputs, sampling_context, m_value, n_iteration, transmitted, walk,
                   locals, incoming_point, returned, exit, counts, clamps,
                   weights_applied, flips, brdf_samples>>

\* Lines 433-435.
FlipSide ==
    /\ pc = "flip"
    /\ flips' = flips + 1
    /\ pc' = "brdf"
    /\ UNCHANGED <<inputs, sampling_context, m_value, n_iteration, transmitted, walk,
                   locals, incoming_point, returned, exit, counts, clamps,
                   weights_applied, brdf_samples>>

\* Lines 437-450.
SampleBrdf ==
    /\ pc = "brdf"
    /\ brdf_samples' = brdf_samples + 1
    /\ Return("true", "exited")
    /\ UNCHANGED <<inputs, sampling_context, m_value, n_iteration, transmitted, walk,
                   locals, incoming_point, counts, clamps, weights_applied, flips>>

Next ==
    \/ TraceInitialRay
    \/ LeaveLoop
    \/ EnterIteration
    \/ RussianRoulette
    \/ ChooseChannel
    \/ SampleDirection
    \/ UpdateByAlbedo
    \/ SampleDistance
    \/ TraceRay
    \/ ClampValue
    \/ ApplyWeights
    \/ FlipSide
    \/ SampleBrdf

Spec == Init /\ [][Next]_vars

\* ------------------------------------------------------------------------
\* Properties
\* ------------------------------------------------------------------------

\* Position of a program point within one pass of the walk, and the
\* termination measure built from it and the iteration counter.
C1_Rank(p) ==
    CASE p = "start" -> 0
      [] p = "rr" -> 1
      [] p = "channel" -> 2
      [] p = "direction" -> 3
      [] p = "albedo" -> 4
      [] p = "distance" -> 5
      [] p = "trace" -> 6
      [] p = "while" -> 7
      [] p = "clamp" -> 8
      [] p = "weight" -> 9
      [] p = "flip" -> 10
      [] p = "brdf" -> 11
      [] OTHER -> 12

C1_Measure(p, n) == 20 * n + C1_Rank(p)

\* C1: every call to sample() terminates: each step strictly increases a
\* measure that is bounded, so no execution is infinite.  The loop body runs at most 64 times: inside the
\* body the iteration counter is at most 64, and a walk that enters the loop
\* a 65th time returns false having sampled and traced nothing beyond the
\* 64 completed iterations.
C1_WalkTerminates ==
    [][/\ C1_Measure(pc', n_iteration') > C1_Measure(pc, n_iteration)
       /\ C1_Measure(pc', n_iteration') <= 20 * 65 + 12
       /\ pc' \in {"rr", "channel", "direction", "albedo", "distance", "trace"} =>
            n_iteration' <= 64
       /\ direction_samples' <= 64
       /\ albedo_updates' <= 64
       /\ distance_samples' <= 64
       /\ traces' <= 1 + 64
       /\ n_iteration' > 64 =>
            /\ n_iteration' = 65
            /\ pc' = "done"
            /\ returned' = "false"
            /\ rr_tests' = 64 - 8
            /\ direction_samples' = 64
            /\ albedo_updates' = 64
            /\ distance_samples' = 64
            /\ traces' = 1 + 64
            /\ clamps' = 0
            /\ weights_applied' = <<>>
            /\ flips' = 0
            /\ brdf_samples' = 0]_vars

\* A walk that was cut off on its 65th loop entry.
C1_Witness ==
    /\ exit = "max_iterations"
    /\ n_iteration = 65
    /\ returned = "false"

\* C2: when the initial ray finds no valid hit, sample() returns false at
\* once: no loop iteration has run, the throughput is still 1 in every
\* channel, and no clamp, scattering-order weight, side flip or BRDF sample
\* has happened; the call takes no further step.
C2_InvalidInitialHitFails ==
    (n_iteration = 0 /\ incoming_point = "miss") =>
        /\ pc = "done"
        /\ returned = "false"
        /\ ~ENABLED Next
        /\ \A i \in Channels : m_value[i] = FromInt(1)
        /\ traces = 1
        /\ rr_tests = 0
        /\ direction_samples = 0
        /\ albedo_updates = 0
        /\ distance_samples = 0
        /\ clamps = 0
        /\ weights_applied = <<>>
        /\ flips = 0
        /\ brdf_samples = 0

\* The initial ray escaped and the call returned false.
C2_Witness ==
    /\ n_iteration = 0
    /\ incoming_point = "miss"
    /\ traces = 1
    /\ returned = "false"

\* C3: Russian roulette is consulted once per iteration exactly in the
\* iterations whose counter exceeds 8, before the channel of that iteration
\* is selected; a failed roulette returns false in that iteration with no
\* channel, direction or distance sampled and no ray traced in it.
C3_RouletteAfterEightIterations ==
    LET due(n) == IF n > 8 THEN n - 8 ELSE 0
    IN  /\ pc = "rr" => (rr_tests = due(n_iteration - 1) /\ channel = NoChannel)
        /\ pc = "channel" => (rr_tests = due(n_iteration) /\ channel = NoChannel)
        /\ pc \in {"direction", "albedo", "distance", "trace"} =>
                rr_tests = due(n_iteration)
        /\ n_iteration <= 8 => (rr_tests = 0 /\ exit # "rr")
        /\ exit = "rr" =>
                /\ pc = "done"
                /\ returned = "false"
                /\ n_iteration > 8
                /\ rr_tests = n_iteration - 8
                /\ channel = NoChannel
                /\ direction_samples = n_iteration - 1
                /\ albedo_updates = n_iteration - 1
                /\ distance_samples = n_iteration - 1
                /\ traces = n_iteration

\* A walk that ran eight iterations without roulette and then failed it.
C3_Witness ==
    /\ exit = "rr"
    /\ n_iteration > 8
    /\ rr_tests >= 1
    /\ returned = "false"

\* C4: test_rr takes p = min(largest channel of the throughput, 0.99), draws
\* one uniform variate s and lets the walk continue exactly when s < p;
\* on continuation every channel is divided by that p, so the largest
\* channel becomes 1 when it was below 0.99; on failure the call returns
\* false and the throughput is unchanged.
C4_RouletteArithmetic ==
    [][rr_tests' = rr_tests + 1 =>
        LET top == CHOOSE v \in {m_value[i] : i \in Channels} :
                        \A j \in Channels : Le(m_value[j], v)
            p == IF Lt(top, Dec(990)) THEN top ELSE Dec(990)
            s == stream[sampling_context + 1]
        IN  /\ sampling_context' = (sampling_context + 1) % StreamPeriod
            /\ pc' \in {"channel", "done"}
            /\ (pc' = "channel") <=> Lt(s, p)
            /\ pc' = "channel" =>
                    /\ \A i \in Channels : m_value'[i] = Div(m_value[i], p)
                    /\ Lt(top, Dec(990)) =>
                            /\ \E i \in Channels : m_value'[i] = FromInt(1)
                            /\ \A i \in Channels : Le(m_value'[i], FromInt(1))
            /\ pc' = "done" =>
                    /\ returned' = "false"
                    /\ m_value' = m_value]_vars

\* A walk that passed the roulette with an uneven throughput: the largest
\* channel has been rescaled to 1, another one stays below.
C4_Witness ==
    /\ pc = "channel"
    /\ n_iteration > 8
    /\ rr_tests >= 1
    /\ \E i \in Channels : m_value[i] = FromInt(1)
    /\ \E i \in Channels : Lt(0, m_value[i]) /\ Lt(m_value[i], FromInt(1))

\* C5: on a successful exit exactly one scattering-order weight is applied,
\* chosen by the number of traced segments (the initial one plus one per
\* loop iteration): zero_scattering_weight for one segment,
\* single_scattering_weight for two, multiple_scattering_weight for more.
C5_OneWeightBySegmentCount ==
    (pc \in {"flip", "brdf"} \/ returned = "true") =>
        LET segments == 1 + n_iteration
        IN  weights_applied =
                IF segments = 1 THEN <<"zero">>
                ELSE IF segments = 2 THEN <<"single">>
                ELSE <<"multiple">>

\* C6: when the walk has left the loop through the surface, every channel
\* of the throughput lies in [0, 2] just before the scattering-order
\* weights are applied, the clamp having run exactly once.
C6_ClampedBeforeWeights ==
    pc = "weight" =>
        /\ clamps = 1
        /\ weights_applied = <<>>
        /\ \A i \in Channels :
                /\ Le(0, m_value[i])
                /\ Le(m_value[i], FromInt(2))

\* A walk that scattered at least once and whose throughput had to be cut
\* down to 2 in some channel.
C6_Witness ==
    /\ pc = "weight"
    /\ n_iteration >= 1
    /\ \E i \in Channels : m_value[i] = FromInt(2)

\* C7: a walk in a medium whose extinction is 0 in every channel
\* never returns a successful sample and never starts a second iteration,
\* and when its initial ray found the surface it returns false in
\* iteration 1 through the degenerate channel check.
C7_ZeroExtinctionFailsInFirstIteration ==
    (\A i \in Channels : extinction[i] = 0) =>
        /\ returned # "true"
        /\ n_iteration <= 1
        /\ (pc = "done" /\ incoming_point = "hit") =>
                /\ exit = "degenerate_channel"
                /\ n_iteration = 1
                /\ returned = "false"

\* C8: the reflectance model is sampled exactly once in a call that returns
\* true and never in a call that returns false or aborts; the hit record
\* is flipped exactly once in a successful call and never otherwise, the
\* flip happens only after the loop has ended, and the reflectance model is
\* never sampled before the flip.
C8_FlipThenSampleOnce ==
    /\ returned = "true" => (brdf_samples = 1 /\ flips = 1)
    /\ (returned = "false" \/ pc = "aborted") => (brdf_samples = 0 /\ flips = 0)
    /\ brdf_samples <= flips
    /\ flips <= 1
    /\ brdf_samples = 1 => returned = "true"
    /\ flips = 1 =>
            /\ transmitted
            /\ incoming_point = "hit"
            /\ pc \in {"brdf", "done"}
            /\ clamps = 1
    /\ pc = "brdf" => (flips = 1 /\ brdf_samples = 0)

\* A successful call that needed at least one loop iteration.
C8_Witness ==
    /\ returned = "true"
    /\ n_iteration >= 1
    /\ flips = 1
    /\ brdf_samples = 1

\* C9: every free-flight distance sampled in the loop with a positive
\* effective extinction is strictly positive and finite, so the assertion
\* on the sampled distance never fails.
C9_SampledDistanceIsPositive ==
    LET sigma_eff ==
            IF is_biased
            THEN Mul(extinction[channel],
                     Sub(FromInt(1), Mul(cosine, rcp_diffusion_length[channel])))
            ELSE extinction[channel]
    IN  (/\ pc = "trace" \/ exit = "assert_distance"
         /\ Lt(0, sigma_eff)) =>
            /\ Lt(0, distance)
            /\ IsFinite(distance)
            /\ exit # "assert_distance"

\* C10: when the channel selected in an iteration has zero scattering or
\* carries zero throughput, sample() returns false at that point: no
\* direction or distance has been sampled, no albedo multiplied and no ray
\* traced in that iteration, and the throughput is untouched; otherwise the
\* iteration goes on to sample a direction.
C10_DegenerateChannelFails ==
    [][pc = "channel" =>
        /\ channel' \in Channels
        /\ IF Eq(Mul(albedo[channel'], extinction[channel']), 0)
                \/ Eq(m_value[channel'], 0)
           THEN /\ pc' = "done"
                /\ returned' = "false"
                /\ m_value' = m_value
                /\ direction_samples' = n_iteration' - 1
                /\ albedo_updates' = n_iteration' - 1
                /\ distance_samples' = n_iteration' - 1
                /\ traces' = n_iteration'
           ELSE /\ pc' = "direction"
                /\ returned' = "none"]_vars

\* A walk lost in its second or a later iteration on a channel that can
\* scatter but carries no throughput.
C10_Witness ==
    /\ exit = "degenerate_channel"
    /\ returned = "false"
    /\ n_iteration >= 2
    /\ ~Eq(scattering[channel], 0)
    /\ Eq(m_value[channel], 0)

\* C11: in every loop iteration that reaches the trace the throughput has
\* been multiplied by the albedo exactly once in that iteration, channel by
\* channel, and before the ray of that iteration is traced; a walk that
\* exits after k iterations has been multiplied by the albedo exactly k
\* times, a walk that exits on the initial segment never.
C11_AlbedoOncePerIterationBeforeTrace ==
    [][/\ pc' = "trace" =>
            (albedo_updates' = n_iteration' /\ traces' = n_iteration')
       /\ (traces' # traces /\ pc # "start") =>
            /\ pc = "trace"
            /\ albedo_updates = n_iteration
            /\ albedo_updates' = albedo_updates
            /\ traces' = n_iteration + 1
       /\ albedo_updates' # albedo_updates =>
            /\ albedo_updates' = albedo_updates + 1
            /\ traces' = traces
            /\ \A i \in Channels :
                    m_value'[i] = Mul(m_value[i], medium[i].albedo)
       /\ pc' \in {"clamp", "weight", "flip", "brdf"} =>
            albedo_updates' = n_iteration'
       /\ returned' = "true" => albedo_updates' = n_iteration'
       /\ n_iteration' = 0 => albedo_updates' = 0]_vars

\* A walk that left the object after three scattering events.
C11_Witness ==
    /\ returned = "true"
    /\ n_iteration = 3
    /\ albedo_updates = 3
    /\ traces = 4

\* C12 as stated: whenever test_rr is called (iterations 9 and later) the
\* largest channel of the throughput is strictly positive, and the
\* assertion scattering_prob > 0 never fails.
C12_ThroughputPositiveAtRoulette ==
    /\ (pc = "rr" /\ n_iteration > 8) => \E i \in Channels : Lt(0, m_value[i])
    /\ exit # "assert_scattering_prob"

\* C12, amended: whenever test_rr is called every channel of the throughput
\* is finite and not negative, but all of them may be zero; then p = 0, the
\* roulette fails and sample() returns false with the throughput unchanged
\* before the assertion is evaluated.  The walk only goes on, and the
\* division only happens, with a strictly positive largest channel, so the
\* assertion scattering_prob > 0 never fails.
C12_RouletteAssertionHolds ==
    [][rr_tests' = rr_tests + 1 =>
        /\ \A i \in Channels : Le(0, m_value[i]) /\ IsFinite(m_value[i])
        /\ pc' # "aborted"
        /\ exit' # "assert_scattering_prob"
        /\ (\A i \in Channels : ~Lt(0, m_value[i])) =>
                /\ pc' = "done"
                /\ returned' = "false"
                /\ m_value' = m_value
        /\ pc' = "channel" => \E i \in Channels : Lt(0, m_value[i])]_vars

\* A walk whose throughput had underflowed to zero in every channel when
\* the roulette was consulted, and which the roulette ended.
C12_Witness ==
    /\ exit = "rr"
    /\ returned = "false"
    /\ n_iteration > 8
    /\ \A i \in Channels : m_value[i] = 0

\* C13: a walk that exits with an iteration count of 1 has its clamped
\* throughput multiplied by the zero-scattering weight and then also by the
\* multiple-scattering weight; with an iteration count of 2 only the
\* single-scattering weight is applied, and with any other count only the
\* multiple-scattering weight.
C13_BothWeightsAfterOneIteration ==
    [][pc = "weight" =>
        /\ n_iteration = 1 =>
            /\ weights_applied' = <<"zero", "multiple">>
            /\ \A i \in Channels :
                    m_value'[i] = Mul(Mul(m_value[i], zero_scattering_weight),
                                      multiple_scattering_weight)
        /\ n_iteration = 2 =>
            /\ weights_applied' = <<"single">>
            /\ \A i \in Channels :
                    m_value'[i] = Mul(m_value[i], single_scattering_weight)
        /\ n_iteration \notin {1, 2} =>
            /\ weights_applied' = <<"multiple">>
            /\ \A i \in Channels :
                    m_value'[i] = Mul(m_value[i], multiple_scattering_weight)]_vars

\* A successful walk of exactly one loop iteration, with a throughput that
\* shows the two factors.
C13_Witness ==
    /\ returned = "true"
    /\ n_iteration = 1
    /\ weights_applied = <<"zero", "multiple">>
    /\ \E i \in Channels : Lt(0, m_value[i])

\* C14: in the MIS combination of a loop segment, mis_dwivedi_near is
\* evaluated entirely against the near slab normal and mis_dwivedi_far
\* entirely against the far slab normal: the cosine of the effective
\* extinction and the phase-function density both use the respective
\* normal.  The throughput after the segment is the one this combination
\* gives.
C14_DwivediTermsUseOwnNormal ==
    [][(pc = "trace" /\ pc' = "while") =>
        \E tr \in BOOLEAN :
            /\ tr = transmitted'
            /\ \E d \in (IF tr THEN {distance, Mul(distance, Dec(500))}
                                ELSE {distance}) :
                LET near == compute_mis_dwivedi_sampling(
                                d, Mul(incoming, near_slab_normal), channel_pdf,
                                tr, near_slab_normal, incoming)
                    far == compute_mis_dwivedi_sampling(
                                d, Mul(incoming, far_slab_normal), channel_pdf,
                                tr, far_slab_normal, incoming)
                    classical == compute_transmission_classical_sampling(
                                    d, channel_pdf, tr)
                    mis == mix(mix(far, near, bias_strategy_prob), classical,
                               classical_sampling_prob)
                    transmission == classical_transmission(d, tr)
                    expected == [i \in Channels |->
                                    Mul(m_value[i], Mul(transmission[i], rcp(mis)))]
                IN  m_value' = expected]_vars

====
